---- MODULE Spec2Model ----
(***************************************************************************)
(* SmoothSendSDK: the transfer orchestration of src/core/SmoothSendSDK.ts  *)
(* over the HTTP wrapper of src/utils/http.ts.                             *)
(*                                                                         *)
(* One caller runs transfer(request, signer) or batchTransfer(request,     *)
(* signer).  Every `await` of the code is a suspension point: the action   *)
(* that answers it runs the code up to the next `await` (or to the return  *)
(* or throw).  The relayer, the signer and the clock are the environment.  *)
(*                                                                         *)
(* A transfer request is identified by its position in the batch (its      *)
(* `member` index; 1 for a direct transfer) and by its chain; from, to,    *)
(* token and amount are copied unchanged into every relayer request and    *)
(* are carried by the member index.  Event timestamps are not modelled.    *)
(* `events` is the sequence of events handed to emitEvent; emitEvent        *)
(* catches whatever a listener raises, so delivery does not change the     *)
(* orchestration.  Relayer answers that carry data are well-formed except  *)
(* for the txHash of a relay answer, which may be empty or missing.        *)
(***************************************************************************)
EXTENDS Integers, Sequences, FiniteSets, TLC

\* ------------------------------------------------------------------ bounds
\* members of a batch request
MaxBatch == 2
\* changes the environment makes during one call (clock ticks and nonce advances)
MaxEnvChanges == 1

\* largest maxRetries a caller of retry() passes
MaxRetriesTried == 3

\* --------------------------------------------------------- program values
\* retry(operation, maxRetries = 3, delay = 1000)
DefaultMaxRetries == 3
DefaultDelay == 1000
\* Math.floor(Date.now() / 1000) + 3600
DeadlineWindow == 3600
MsPerSecond == 1000
\* retries: config.retries || 3
ConfigRetries == 3
\* batchTransfer's literals
PlaceholderFee == 1000
PlaceholderNonce == 0
PlaceholderSignature == [by |-> "placeholder", member |-> 0, nonce |-> 0, deadline |-> 0]

Chains == {"avalanche", "other"}
\* what the transport can produce for one request
TransportKinds == {"ok", "nodata", "rejected", "unreachable"}
\* relayerFee values a quote may carry, txHash values a relay answer may carry
\* ("" is an empty or missing txHash)
QuoteFees == {2500}
TxHashes == {"", "0xabc"}

\* request.amount values a caller passes: "10", "0", "1.5"
Amounts == {<<"1", "0">>, <<"0">>, <<"1", ".", "5">>}

NetworkErrorMessage == "Network error - unable to connect to API Gateway"
RelayerErrorMessage == "relayer error"

VARIABLES
  op,             \* "idle", "transfer" or "batchTransfer": the call made
  pc,             \* the await the orchestration is suspended at, or "done"
  transfers,      \* request.transfers (<<request>> for a direct transfer): chains
  amount,         \* request.amount of a direct transfer, as its characters
  cur,            \* the member whose transfer() is running
  quote,          \* transfer()'s `quote` (its relayerFee)
  signatureData,  \* transfer()'s `signatureData`
  signature,      \* transfer()'s `signature`
  events,         \* every event handed to emitEvent, in order
  calls,          \* every request sent to the relayer, in order
  replies,        \* what get/post resolved to for each request, in order
  signerCalls,    \* every payload handed to signer.signTypedData, in order
  results,        \* batchTransfer's `results`
  outcome,        \* what the call returned or threw
  now,            \* Date.now(), in milliseconds
  relayerNonce    \* the nonce the relayer currently issues

\* HttpClient.retry: one call of retry(operation, maxRetries, delay)
VARIABLES
  retryPc,        \* "idle", "operation" (awaiting it), "backoff" (awaiting the timer), "done"
  maxRetries,     \* retry's `maxRetries`
  delay,          \* retry's `delay`
  attempt,        \* retry's loop variable
  lastError,      \* retry's `lastError`
  retryLog,       \* what retry did, in order: invocations, their settling, timers set
  retryResult     \* what retry returned

retryVars == <<retryPc, maxRetries, delay, attempt, lastError, retryLog, retryResult>>

\* the listener registry and one emitEvent call
VARIABLES
  eventListeners, \* this.eventListeners: the registered listeners, in push order
  lastEmit        \* the last emitEvent call: the list it started with, the listeners
                  \* it invoked in order, those whose exception it caught, how it ended

busVars == <<eventListeners, lastEmit>>

\* two transfer() calls in flight on one SDK instance for one (chain, from)
VARIABLES
  procs,          \* per call: its position, the nonces it was given, its outcome
  chainNonce      \* the relayer's nonce of the account

concVars == <<procs, chainNonce>>

\* one call of a relay-client method of the SDK (getQuote, getNonce, ...)
VARIABLES
  clientPc,        \* "idle", "nonce" (prepareSignature awaits getNonce), "waiting", "done"
  clientCall,      \* the method called and its chain argument
  clientRequested, \* the endpoint of the request in flight or last answered
  clientReply,     \* what httpClient.get / post returned last
  clientEvents,    \* the events the call emitted
  clientOutcome,   \* what the call returned or threw
  clientCount      \* calls made so far

clientVars == <<clientPc, clientCall, clientRequested, clientReply, clientEvents,
                clientOutcome, clientCount>>

\* one call of validateAmount or validateAddress
VARIABLES
  valCall,        \* the method and its arguments
  valResult       \* what it returned

valVars == <<valCall, valResult>>

\* prepareSignature's request and payload, built at several clock readings
VARIABLES
  buildClock,     \* Date.now() in ms
  buildLog        \* the builds made so far: inputs, clock reading, request, payload

buildVars == <<buildClock, buildLog>>

\* the state outside the transfer orchestration
auxVars == <<retryVars, busVars, concVars, clientVars, valVars, buildVars>>

vars == <<op, pc, transfers, amount, cur, quote, signatureData, signature, events,
          calls, replies, signerCalls, results, outcome, now, relayerNonce, auxVars>>

orchVars == <<op, pc, transfers, amount, cur, quote, signatureData, signature, events,
              calls, replies, signerCalls, results, outcome, now, relayerNonce>>

NoValue == [kind |-> "none"]

\* ------------------------------------------------------------ HttpClient
\* handleError: any thrown error becomes {success: false, error: message}
handleError(message) ==
  [success |-> FALSE, hasData |-> FALSE, error |-> message]

\* get / post: the body of a 2xx answer, or handleError of what the response
\* interceptor threw (a relayer error body, or NETWORK_ERROR)
httpRequest(kind, data) ==
  CASE kind = "ok"          -> [success |-> TRUE, hasData |-> TRUE, error |-> "", data |-> data]
    [] kind = "nodata"      -> [success |-> TRUE, hasData |-> FALSE, error |-> ""]
    [] kind = "rejected"    -> handleError(RelayerErrorMessage)
    [] kind = "unreachable" -> handleError(NetworkErrorMessage)

\* !response.success || !response.data
ResponseFailed(response) == ~response.success \/ ~response.hasData

\* response.error || fallback
ErrorMessage(response, fallback) ==
  IF response.error # "" THEN response.error ELSE fallback

\* ------------------------------------------------------------- SDK helpers
SmoothSendError(message, code, chain) ==
  [message |-> message, code |-> code, chain |-> chain]
\* an error that is no SmoothSendError (raised by the signer or the runtime)
PlainError(message) == [message |-> message, code |-> "none", chain |-> "none"]

\* the outer catch of batchTransfer
BatchTransferError(error) ==
  SmoothSendError("Batch transfer failed: " \o error.message,
                  "BATCH_TRANSFER_ERROR", "avalanche")

\* validateAmount: /^\d+$/.test(amount) && parseInt(amount) > 0
Digits == <<"0", "1", "2", "3", "4", "5", "6", "7", "8", "9">>
IsDigit(c) == \E v \in 1..Len(Digits) : Digits[v] = c
DigitValue(c) == (CHOOSE v \in 1..Len(Digits) : Digits[v] = c) - 1
RECURSIVE ParseInt(_)
ParseInt(a) ==
  IF Len(a) = 0 THEN 0
  ELSE 10 * ParseInt(SubSeq(a, 1, Len(a) - 1)) + DigitValue(a[Len(a)])
\* mutant: zero is accepted
validateAmount_nonNegative(chain, a, token) ==
  /\ Len(a) > 0
  /\ \A i \in 1..Len(a) : IsDigit(a[i])
  /\ ParseInt(a) >= 0

validateAmount(chain, a, token) ==
  /\ Len(a) > 0
  /\ \A i \in 1..Len(a) : IsDigit(a[i])
  /\ ParseInt(a) > 0

\* validateAddress: /^0x[a-fA-F0-9]{40}$/ on 'avalanche', false on any other chain
AddressHexDigits == 40
HexDigits ==
  {"0", "1", "2", "3", "4", "5", "6", "7", "8", "9",
   "a", "b", "c", "d", "e", "f", "A", "B", "C", "D", "E", "F"}

\* mutant: the pattern has no end anchor
validateAddress_noEndAnchor(chain, a) ==
  /\ chain = "avalanche"
  /\ Len(a) >= 2 + AddressHexDigits
  /\ a[1] = "0"
  /\ a[2] = "x"
  /\ \A i \in 3..(2 + AddressHexDigits) : a[i] \in HexDigits

validateAddress(chain, a) ==
  /\ chain = "avalanche"
  /\ Len(a) = 2 + AddressHexDigits
  /\ a[1] = "0"
  /\ a[2] = "x"
  /\ \A i \in 3..Len(a) : a[i] \in HexDigits

chainName(chain) == IF chain = "avalanche" THEN "avalanche-fuji" ELSE chain

ComputeDeadline(t) == (t \div MsPerSecond) + DeadlineWindow

emitEvent(log, event) == Append(log, event)

InitiatedEvent(m) == [type |-> "transfer_initiated", member |-> m]
SignedEvent(m, sig) == [type |-> "transfer_signed", member |-> m, signature |-> sig]
SubmittedEvent(m, sig) == [type |-> "transfer_submitted", member |-> m, signature |-> sig]
ConfirmedEvent(m, data) == [type |-> "transfer_confirmed", member |-> m, result |-> data]
FailedEvent(m, message, step) ==
  [type |-> "transfer_failed", member |-> m, error |-> message, step |-> step]

\* the TransferResult built from a relay answer
SuccessResult(data) == [success |-> TRUE, txHash |-> data]
\* the failure-shaped result of the sequential fallback
FailureResult(message) == [success |-> FALSE, txHash |-> "", error |-> message]

Returned(result) == [kind |-> "returned", result |-> result]
Thrown(error) == [kind |-> "thrown", error |-> error]

\* ------------------------------------------------------ relayer requests
QuoteRequest(m, chain) ==
  [endpoint |-> "/quote", member |-> m, chainName |-> chainName(chain)]
NonceRequest(m, chain) ==
  [endpoint |-> "/nonce", member |-> m, chainName |-> chainName(chain)]
PrepareRequest(m, chain, fee, nonce, deadline) ==
  [endpoint |-> "/prepare-signature", member |-> m, chainName |-> chainName(chain),
   relayerFee |-> fee, nonce |-> nonce, deadline |-> deadline]
RelayRequest(m, chain, fee, nonce, deadline, sig) ==
  [endpoint |-> "/relay-transfer", member |-> m, chainName |-> chainName(chain),
   relayerFee |-> fee, nonce |-> nonce, deadline |-> deadline, signature |-> sig]
\* one element of batchRequest.transfers
BatchMember(m, t) ==
  [member |-> m, relayerFee |-> PlaceholderFee, nonce |-> PlaceholderNonce,
   deadline |-> ComputeDeadline(t), signature |-> PlaceholderSignature]
BatchRequest(ts, t) ==
  [endpoint |-> "/relay-batch-transfer", chainName |-> chainName("avalanche"),
   transfers |-> [m \in 1..Len(ts) |-> BatchMember(m, t)]]

\* the typed data the relayer prepares from a /prepare-signature request
TypedData(request) ==
  [member |-> request.member, relayerFee |-> request.relayerFee,
   nonce |-> request.nonce, deadline |-> request.deadline]
\* the signature the signer produces over a typed-data message
SignatureOf(message) ==
  [by |-> "signer", member |-> message.member, nonce |-> message.nonce,
   deadline |-> message.deadline]

\* ------------------------------------------------------------------ state
\* no retry() call was made
RetryIdle ==
  /\ retryPc = "idle"
  /\ maxRetries = 0
  /\ delay = 0
  /\ attempt = 0
  /\ lastError = NoValue
  /\ retryLog = <<>>
  /\ retryResult = NoValue

\* no listener was registered and nothing was emitted
BusIdle ==
  /\ eventListeners = <<>>
  /\ lastEmit = NoValue

\* the two callers; neither has called transfer()
Procs == {"p1", "p2"}
ProcIdle == [pc |-> "idle", nonces |-> <<>>, last |-> "none", outcome |-> NoValue]
ConcIdle ==
  /\ procs = [p \in Procs |-> ProcIdle]
  /\ chainNonce = 0

\* no relay-client method was called
ClientIdle ==
  /\ clientPc = "idle"
  /\ clientCall = NoValue
  /\ clientRequested = ""
  /\ clientReply = NoValue
  /\ clientEvents = <<>>
  /\ clientOutcome = NoValue
  /\ clientCount = 0

\* no validation was asked for
ValIdle ==
  /\ valCall = NoValue
  /\ valResult = NoValue

\* nothing was built
BuildIdle ==
  /\ buildClock = 0
  /\ buildLog = <<>>

\* no call of the SDK was made
OrchIdle ==
  /\ op = "idle"
  /\ pc = "idle"
  /\ transfers = <<>>
  /\ amount = <<>>
  /\ cur = 0
  /\ quote = NoValue
  /\ signatureData = NoValue
  /\ signature = NoValue
  /\ events = <<>>
  /\ calls = <<>>
  /\ replies = <<>>
  /\ signerCalls = <<>>
  /\ results = <<>>
  /\ outcome = NoValue
  /\ now = 0
  /\ relayerNonce = 0

Init ==
  /\ RetryIdle
  /\ BusIdle
  /\ ConcIdle
  /\ ClientIdle
  /\ ValIdle
  /\ BuildIdle
  /\ op = "idle"
  /\ pc = "idle"
  /\ transfers = <<>>
  /\ amount = <<>>
  /\ cur = 0
  /\ quote = NoValue
  /\ signatureData = NoValue
  /\ signature = NoValue
  /\ events = <<>>
  /\ calls = <<>>
  /\ replies = <<>>
  /\ signerCalls = <<>>
  /\ results = <<>>
  /\ outcome = NoValue
  /\ now = 0
  /\ relayerNonce = 0

\* transfer(ts[m], signer) is entered: getQuote emits transfer_initiated and
\* posts /quote.  evs, cls and rs are the logs and `results` at that moment.
EnterTransfer(m, ts, evs, cls, rs) ==
  /\ cur' = m
  /\ pc' = "quote"
  /\ events' = emitEvent(evs, InitiatedEvent(m))
  /\ calls' = Append(cls, QuoteRequest(m, ts[m]))
  /\ results' = rs
  /\ quote' = NoValue
  /\ signatureData' = NoValue
  /\ signature' = NoValue
  /\ UNCHANGED <<outcome, signerCalls>>

\* what the fallback loop pushes for a member whose transfer() settled
CollectedResult(o) ==
  IF o.kind = "returned" THEN o.result ELSE FailureResult(o.error.message)

\* mutant: the last collected result is returned instead of the first
FallbackReturn_last(rs) ==
  IF Len(rs) > 0 THEN Returned(rs[Len(rs)])
  ELSE Returned(FailureResult("No transfers completed"))

\* mutant: a fallback in which no member succeeded raises BATCH_TRANSFER_ERROR
FallbackReturn_throwWhenAllFail(rs) ==
  IF \E i \in 1..Len(rs) : rs[i].success THEN Returned(rs[1])
  ELSE Thrown(BatchTransferError(PlainError("all transfers failed")))

\* results[0] || { success: false, txHash: '', error: 'No transfers completed' }
FallbackReturn(rs) ==
  IF Len(rs) > 0 THEN Returned(rs[1])
  ELSE Returned(FailureResult("No transfers completed"))

\* mutant: the loop stops at the first member that failed
FallbackContinue_abortOnFailure(rs, evs) ==
  IF cur < Len(transfers) /\ rs[Len(rs)].success
  THEN EnterTransfer(cur + 1, transfers, evs, calls, rs)
  ELSE /\ outcome' = FallbackReturn(rs)
       /\ pc' = "done"
       /\ events' = evs
       /\ results' = rs
       /\ UNCHANGED <<cur, calls, quote, signatureData, signature, signerCalls>>

\* mutant: after the last member, a first member that failed is run once more
FallbackContinue_retriesFirst(rs, evs) ==
  IF cur < Len(transfers) /\ Len(rs) < Len(transfers)
  THEN EnterTransfer(cur + 1, transfers, evs, calls, rs)
  ELSE IF Len(rs) = Len(transfers) /\ ~rs[1].success
  THEN EnterTransfer(1, transfers, evs, calls, rs)
  ELSE /\ outcome' = FallbackReturn(rs)
       /\ pc' = "done"
       /\ events' = evs
       /\ results' = rs
       /\ UNCHANGED <<cur, calls, quote, signatureData, signature, signerCalls>>

\* the fallback loop after member `cur` was collected: the next member's
\* transfer() is entered, or batchTransfer returns
FallbackContinue(rs, evs) ==
  IF cur < Len(transfers)
  THEN EnterTransfer(cur + 1, transfers, evs, calls, rs)
  ELSE /\ outcome' = FallbackReturn(rs)
       /\ pc' = "done"
       /\ events' = evs
       /\ results' = rs
       /\ UNCHANGED <<cur, calls, quote, signatureData, signature, signerCalls>>

\* the running transfer() returns or throws (o), the event log being evs:
\* a direct call settles the caller's promise, a fallback member is collected
TransferSettles(o, evs) ==
  IF op = "transfer"
  THEN /\ outcome' = o
       /\ pc' = "done"
       /\ events' = evs
       /\ UNCHANGED <<cur, calls, results, quote, signatureData, signature, signerCalls>>
  ELSE FallbackContinue(Append(results, CollectedResult(o)), evs)

\* ------------------------------------------------------------- transfer()
CallTransfer(chain) ==
  /\ op = "idle"
  /\ op' = "transfer"
  /\ transfers' = <<chain>>
  /\ amount' \in Amounts
  /\ EnterTransfer(1, <<chain>>, events, calls, results)
  /\ UNCHANGED <<replies, now, relayerNonce>>
  /\ UNCHANGED auxVars

\* getQuote after `await post('/quote')`, then prepareSignature up to
\* getNonce's `await get('/nonce')`
QuoteResponse(kind, fee) ==
  /\ pc = "quote"
  /\ LET response == httpRequest(kind, fee)
         error == SmoothSendError(ErrorMessage(response, "Failed to get quote"),
                                  "QUOTE_ERROR", transfers[cur])
     IN /\ replies' = Append(replies, response)
        /\ IF ResponseFailed(response)
           THEN TransferSettles(Thrown(error),
                  emitEvent(events, FailedEvent(cur, error.message, "quote")))
           ELSE /\ quote' = [relayerFee |-> response.data]
                /\ calls' = Append(calls, NonceRequest(cur, transfers[cur]))
                /\ pc' = "prepareNonce"
                /\ UNCHANGED <<cur, events, results, outcome, signatureData,
                               signature, signerCalls>>
  /\ UNCHANGED <<op, transfers, now, relayerNonce>>
  /\ UNCHANGED <<amount, auxVars>>

\* getNonce after `await get('/nonce')`: the nonce, or the NONCE_ERROR it throws
getNonce(response, chain) ==
  IF ResponseFailed(response)
  THEN Thrown(SmoothSendError(ErrorMessage(response, "Failed to get nonce"),
                              "NONCE_ERROR", chain))
  ELSE Returned(response.data)

\* prepareSignature after getNonce, up to `await post('/prepare-signature')`
PrepareNonceResponse(kind) ==
  /\ pc = "prepareNonce"
  /\ LET response == httpRequest(kind, relayerNonce)
         got == getNonce(response, transfers[cur])
     IN /\ replies' = Append(replies, response)
        /\ IF got.kind = "thrown"
           THEN TransferSettles(got,
                  emitEvent(events, FailedEvent(cur, got.error.message, "prepare")))
           ELSE /\ calls' = Append(calls,
                     PrepareRequest(cur, transfers[cur], quote.relayerFee,
                                    got.result, ComputeDeadline(now)))
                /\ pc' = "prepare"
                /\ UNCHANGED <<cur, events, results, outcome, quote, signatureData,
                               signature, signerCalls>>
  /\ UNCHANGED <<op, transfers, now, relayerNonce>>
  /\ UNCHANGED <<amount, auxVars>>

\* prepareSignature after `await post('/prepare-signature')`, then transfer()
\* up to `await signer.signTypedData(...)` or to its UNSUPPORTED_CHAIN throw
PrepareResponse(kind) ==
  /\ pc = "prepare"
  /\ LET response == httpRequest(kind, TypedData(calls[Len(calls)]))
         error == SmoothSendError(ErrorMessage(response, "Failed to prepare signature"),
                                  "SIGNATURE_PREP_ERROR", transfers[cur])
         unsupported == SmoothSendError("Unsupported chain: " \o transfers[cur],
                                        "UNSUPPORTED_CHAIN", "none")
     IN /\ replies' = Append(replies, response)
        /\ IF ResponseFailed(response)
           THEN TransferSettles(Thrown(error),
                  emitEvent(events, FailedEvent(cur, error.message, "prepare")))
           ELSE IF transfers[cur] = "avalanche"
           THEN /\ signatureData' = [message |-> response.data]
                /\ signerCalls' = Append(signerCalls, response.data)
                /\ pc' = "sign"
                /\ UNCHANGED <<cur, events, calls, results, outcome, quote, signature>>
           ELSE TransferSettles(Thrown(unsupported), events)
  /\ UNCHANGED <<op, transfers, now, relayerNonce>>
  /\ UNCHANGED <<amount, auxVars>>

\* mutant: transfer_signed is not emitted
SignerReturns_noSignedEvent ==
  /\ pc = "sign"
  /\ signature' = SignatureOf(signatureData.message)
  /\ calls' = Append(calls, NonceRequest(cur, transfers[cur]))
  /\ pc' = "executeNonce"
  /\ UNCHANGED <<op, transfers, cur, results, outcome, quote, signatureData, events,
                 signerCalls, replies, now, relayerNonce>>
  /\ UNCHANGED <<amount, auxVars>>

\* transfer() after the signer returned: transfer_signed, then getNonce again
SignerReturns ==
  /\ pc = "sign"
  /\ signature' = SignatureOf(signatureData.message)
  /\ events' = emitEvent(events, SignedEvent(cur, signature'))
  /\ calls' = Append(calls, NonceRequest(cur, transfers[cur]))
  /\ pc' = "executeNonce"
  /\ UNCHANGED <<op, transfers, cur, results, outcome, quote, signatureData,
                 signerCalls, replies, now, relayerNonce>>
  /\ UNCHANGED <<amount, auxVars>>

\* mutant: the signer's failure is swallowed and the transfer goes on to submit
SignerThrows_ignored ==
  /\ pc = "sign"
  /\ signature' = PlaceholderSignature
  /\ calls' = Append(calls, NonceRequest(cur, transfers[cur]))
  /\ pc' = "executeNonce"
  /\ UNCHANGED <<op, transfers, cur, results, outcome, quote, signatureData, events,
                 signerCalls, replies, now, relayerNonce>>
  /\ UNCHANGED <<amount, auxVars>>

\* the signer raised (the user rejected the prompt): transfer() rethrows
SignerThrows ==
  /\ pc = "sign"
  /\ TransferSettles(Thrown(PlainError("user rejected the request")), events)
  /\ UNCHANGED <<op, transfers, replies, now, relayerNonce>>
  /\ UNCHANGED <<amount, auxVars>>

\* mutant: the request is posted without transfer_submitted being emitted first
ExecuteNonceResponse_noSubmitted(kind) ==
  /\ pc = "executeNonce"
  /\ LET response == httpRequest(kind, relayerNonce)
         got == getNonce(response, transfers[cur])
     IN /\ replies' = Append(replies, response)
        /\ IF got.kind = "thrown"
           THEN TransferSettles(got, events)
           ELSE /\ calls' = Append(calls,
                     RelayRequest(cur, transfers[cur], quote.relayerFee,
                                  got.result, ComputeDeadline(now), signature))
                /\ pc' = "relay"
                /\ UNCHANGED <<cur, events, results, outcome, quote, signatureData,
                               signature, signerCalls>>
  /\ UNCHANGED <<op, transfers, now, relayerNonce>>
  /\ UNCHANGED <<amount, auxVars>>

\* transfer() after its own getNonce, then executeTransfer up to
\* `await post('/relay-transfer')`
ExecuteNonceResponse(kind) ==
  /\ pc = "executeNonce"
  /\ LET response == httpRequest(kind, relayerNonce)
         got == getNonce(response, transfers[cur])
     IN /\ replies' = Append(replies, response)
        /\ IF got.kind = "thrown"
           THEN TransferSettles(got, events)
           ELSE /\ events' = emitEvent(events, SubmittedEvent(cur, signature))
                /\ calls' = Append(calls,
                     RelayRequest(cur, transfers[cur], quote.relayerFee,
                                  got.result, ComputeDeadline(now), signature))
                /\ pc' = "relay"
                /\ UNCHANGED <<cur, results, outcome, quote, signatureData,
                               signature, signerCalls>>
  /\ UNCHANGED <<op, transfers, now, relayerNonce>>
  /\ UNCHANGED <<amount, auxVars>>

\* mutant: a failed submission is posted again
RelayResponse_retry(kind, txHash) ==
  /\ pc = "relay"
  /\ LET response == httpRequest(kind, txHash)
     IN /\ replies' = Append(replies, response)
        /\ IF ResponseFailed(response)
           THEN /\ calls' = Append(calls, calls[Len(calls)])
                /\ UNCHANGED <<pc, cur, events, results, outcome, quote,
                               signatureData, signature, signerCalls>>
           ELSE TransferSettles(Returned(SuccessResult(response.data)),
                  emitEvent(events, ConfirmedEvent(cur, response.data)))
  /\ UNCHANGED <<op, transfers, now, relayerNonce>>
  /\ UNCHANGED <<amount, auxVars>>

\* mutant: only response.success is tested
RelayResponse_successOnly(kind, txHash) ==
  /\ pc = "relay"
  /\ LET response == httpRequest(kind, txHash)
         error == SmoothSendError(ErrorMessage(response, "Transfer execution failed"),
                                  "EXECUTION_ERROR", transfers[cur])
         data == IF response.hasData THEN response.data ELSE ""
     IN /\ replies' = Append(replies, response)
        /\ IF ~response.success
           THEN TransferSettles(Thrown(error),
                  emitEvent(events, FailedEvent(cur, error.message, "execute")))
           ELSE TransferSettles(Returned(SuccessResult(data)),
                  emitEvent(events, ConfirmedEvent(cur, data)))
  /\ UNCHANGED <<op, transfers, now, relayerNonce>>
  /\ UNCHANGED <<amount, auxVars>>

\* executeTransfer after `await post('/relay-transfer')`
RelayResponse(kind, txHash) ==
  /\ pc = "relay"
  /\ LET response == httpRequest(kind, txHash)
         error == SmoothSendError(ErrorMessage(response, "Transfer execution failed"),
                                  "EXECUTION_ERROR", transfers[cur])
     IN /\ replies' = Append(replies, response)
        /\ IF ResponseFailed(response)
           THEN TransferSettles(Thrown(error),
                  emitEvent(events, FailedEvent(cur, error.message, "execute")))
           ELSE TransferSettles(Returned(SuccessResult(response.data)),
                  emitEvent(events, ConfirmedEvent(cur, response.data)))
  /\ UNCHANGED <<op, transfers, now, relayerNonce>>
  /\ UNCHANGED <<amount, auxVars>>

\* -------------------------------------------------------- batchTransfer()
\* request.transfers: TransferRequest[] of the declared chain type (SupportedChain);
\* a chain outside the type is an input of the direct transfer() only
BatchInputs == UNION {[1..n -> {"avalanche"}] : n \in 0..MaxBatch}

\* batchTransfer up to `await post('/relay-batch-transfer')`
CallBatchTransfer(ts) ==
  /\ op = "idle"
  /\ op' = "batchTransfer"
  /\ transfers' = ts
  /\ calls' = Append(calls, BatchRequest(ts, now))
  /\ pc' = "batchRelay"
  /\ UNCHANGED <<cur, quote, signatureData, signature, events, replies,
                 signerCalls, results, outcome, now, relayerNonce>>
  /\ UNCHANGED <<amount, auxVars>>

\* request.transfers is no array: `.map` raises inside the try, and the outer
\* catch wraps it
CallBatchTransferMalformed ==
  /\ op = "idle"
  /\ op' = "batchTransfer"
  /\ outcome' = Thrown(BatchTransferError(PlainError("request.transfers.map is not a function")))
  /\ pc' = "done"
  /\ UNCHANGED <<transfers, cur, quote, signatureData, signature, events, calls,
                 replies, signerCalls, results, now, relayerNonce>>
  /\ UNCHANGED <<amount, auxVars>>

\* batchTransfer after `await post('/relay-batch-transfer')`
BatchResponse(kind, txHash) ==
  /\ pc = "batchRelay"
  /\ LET response == httpRequest(kind, txHash)
     IN /\ replies' = Append(replies, response)
        /\ IF ResponseFailed(response)
           THEN IF Len(transfers) > 0
                THEN EnterTransfer(1, transfers, events, calls, <<>>)
                ELSE /\ outcome' = FallbackReturn(<<>>)
                     /\ pc' = "done"
                     /\ UNCHANGED <<cur, quote, signatureData, signature, events,
                                    calls, signerCalls, results>>
           ELSE /\ outcome' = Returned(SuccessResult(response.data))
                /\ pc' = "done"
                /\ UNCHANGED <<cur, quote, signatureData, signature, events, calls,
                               signerCalls, results>>
  /\ UNCHANGED <<op, transfers, now, relayerNonce>>
  /\ UNCHANGED <<amount, auxVars>>

\* ------------------------------------------------------------ environment
\* the environment moves while a call is in progress
Running == pc \notin {"idle", "done"}

EnvChanges == (now \div MsPerSecond) + relayerNonce

\* mutant: a pending signer call is abandoned when the clock advances
Tick_signerTimeout ==
  /\ Running
  /\ EnvChanges < MaxEnvChanges
  /\ now' = now + MsPerSecond
  /\ IF pc = "sign"
     THEN /\ TransferSettles(Thrown(PlainError("signer timed out")), events)
          /\ UNCHANGED <<op, transfers, replies, relayerNonce>>
     ELSE UNCHANGED <<op, pc, transfers, cur, quote, signatureData, signature, events,
                      calls, replies, signerCalls, results, outcome, relayerNonce>>
  /\ UNCHANGED <<amount, auxVars>>

\* the clock advances by one second while the orchestration is suspended
Tick ==
  /\ Running
  /\ EnvChanges < MaxEnvChanges
  /\ now' = now + MsPerSecond
  /\ UNCHANGED <<op, pc, transfers, cur, quote, signatureData, signature, events,
                 calls, replies, signerCalls, results, outcome, relayerNonce>>
  /\ UNCHANGED <<amount, auxVars>>

\* the relayer consumes the sender's nonce (another transaction of the sender)
NonceAdvance ==
  /\ Running
  /\ EnvChanges < MaxEnvChanges
  /\ relayerNonce' = relayerNonce + 1
  /\ UNCHANGED <<op, pc, transfers, cur, quote, signatureData, signature, events,
                 calls, replies, signerCalls, results, outcome, now>>
  /\ UNCHANGED <<amount, auxVars>>

Next ==
  \/ \E chain \in Chains : CallTransfer(chain)
  \/ \E kind \in TransportKinds, fee \in QuoteFees : QuoteResponse(kind, fee)
  \/ \E kind \in TransportKinds : PrepareNonceResponse(kind)
  \/ \E kind \in TransportKinds : PrepareResponse(kind)
  \/ SignerReturns
  \/ SignerThrows
  \/ \E kind \in TransportKinds : ExecuteNonceResponse(kind)
  \/ \E kind \in TransportKinds, txHash \in TxHashes : RelayResponse(kind, txHash)
  \/ \E ts \in BatchInputs : CallBatchTransfer(ts)
  \/ CallBatchTransferMalformed
  \/ \E kind \in TransportKinds, txHash \in TxHashes : BatchResponse(kind, txHash)
  \/ Tick
  \/ NonceAdvance

Spec == Init /\ [][Next]_vars

\* ------------------------------------------------------- HttpClient.retry
\* how one invocation of `operation` settles: it resolves to success=true, it
\* resolves to success=false, or it rejects
OperationOutcomes == {"success", "failure", "throws"}
RetryDelays == {DefaultDelay, 250}

\* the result of invocation a when it succeeds, and the error kept when it fails
\* (new Error(result.error), or the error the operation threw)
OperationResult(a) == [success |-> TRUE, attempt |-> a]
OperationError(a, o) == [attempt |-> a, how |-> o]

\* mutant: the delay grows linearly
BackoffDelay_linear(d, a) == d * (a + 1)

\* delay * Math.pow(2, attempt)
BackoffDelay(d, a) == d * (2 ^ a)

\* mutant: the loop runs maxRetries times
LoopCondition_offByOne(a, mr) == a < mr

\* attempt <= maxRetries
LoopCondition(a, mr) == a <= mr

\* the value returned after the loop
RetriesExhausted(mr, error) ==
  [success |-> FALSE, attempts |-> mr + 1, details |-> error]

Invoked(a) == [what |-> "invoke", attempt |-> a]
Settled(a, o) == [what |-> "settled", attempt |-> a, how |-> o]
Delayed(ms) == [what |-> "delay", ms |-> ms]

RetryInit ==
  /\ OrchIdle
  /\ RetryIdle
  /\ BusIdle
  /\ ConcIdle
  /\ ClientIdle
  /\ ValIdle
  /\ BuildIdle

\* attempt++ and the loop test: the operation is invoked again, or the loop is
\* left and the failure is returned.  log is retryLog so far, error is lastError.
AdvanceLoop(log, error) ==
  /\ attempt' = attempt + 1
  /\ IF LoopCondition(attempt + 1, maxRetries)
     THEN /\ retryLog' = Append(log, Invoked(attempt + 1))
          /\ retryPc' = "operation"
          /\ retryResult' = retryResult
     ELSE /\ retryLog' = log
          /\ retryPc' = "done"
          /\ retryResult' = Returned(RetriesExhausted(maxRetries, error))

\* retry(operation, mr, d) up to the first `await operation()`
CallRetry(mr, d) ==
  /\ retryPc = "idle"
  /\ maxRetries' = mr
  /\ delay' = d
  /\ attempt' = 0
  /\ IF LoopCondition(0, mr)
     THEN /\ retryLog' = <<Invoked(0)>>
          /\ retryPc' = "operation"
          /\ retryResult' = retryResult
     ELSE /\ retryLog' = <<>>
          /\ retryPc' = "done"
          /\ retryResult' = Returned(RetriesExhausted(mr, lastError))
  /\ UNCHANGED <<lastError, orchVars, busVars, concVars, clientVars, valVars, buildVars>>

\* mutant: a successful result does not leave the loop
OperationSettles_noEarlyReturn(o) ==
  /\ retryPc = "operation"
  /\ LET log == Append(retryLog, Settled(attempt, o))
         error == IF o = "success" THEN lastError ELSE OperationError(attempt, o)
     IN /\ lastError' = error
        /\ IF attempt < maxRetries
           THEN /\ retryLog' = Append(log, Delayed(BackoffDelay(delay, attempt)))
                /\ retryPc' = "backoff"
                /\ UNCHANGED <<attempt, retryResult>>
           ELSE IF o = "success"
           THEN /\ retryResult' = Returned(OperationResult(attempt))
                /\ retryLog' = log
                /\ retryPc' = "done"
                /\ UNCHANGED attempt
           ELSE AdvanceLoop(log, error)
  /\ UNCHANGED <<maxRetries, delay, orchVars, busVars, concVars, clientVars, valVars, buildVars>>

\* retry after `await operation()`: the result is returned, or the error is
\* kept and the timer is set, or (last attempt) the loop is left
OperationSettles(o) ==
  /\ retryPc = "operation"
  /\ LET log == Append(retryLog, Settled(attempt, o))
         error == OperationError(attempt, o)
     IN IF o = "success"
        THEN /\ retryResult' = Returned(OperationResult(attempt))
             /\ retryLog' = log
             /\ retryPc' = "done"
             /\ UNCHANGED <<attempt, lastError>>
        ELSE /\ lastError' = error
             /\ IF attempt < maxRetries
                THEN /\ retryLog' = Append(log, Delayed(BackoffDelay(delay, attempt)))
                     /\ retryPc' = "backoff"
                     /\ UNCHANGED <<attempt, retryResult>>
                ELSE AdvanceLoop(log, error)
  /\ UNCHANGED <<maxRetries, delay, orchVars, busVars, concVars, clientVars, valVars, buildVars>>

\* retry after `await new Promise(resolve => setTimeout(resolve, ...))`
TimerFires ==
  /\ retryPc = "backoff"
  /\ AdvanceLoop(retryLog, lastError)
  /\ UNCHANGED <<maxRetries, delay, lastError, orchVars, busVars, concVars, clientVars, valVars, buildVars>>

RetryNext ==
  \/ \E mr \in 0..MaxRetriesTried, d \in RetryDelays : CallRetry(mr, d)
  \/ \E o \in OperationOutcomes : OperationSettles(o)
  \/ TimerFires

SpecRetry == RetryInit /\ [][RetryNext]_vars

\* ================================================================ properties
Members == 1..Len(transfers)

\* the events emitted for member m, in order, and their types
EventsOf(m) == SelectSeq(events, LAMBDA e : e.member = m)
TypesOf(m) == [i \in 1..Len(EventsOf(m)) |-> EventsOf(m)[i].type]

\* the positions of the requests of member m to one endpoint
CallsTo(endpoint, m) ==
  {i \in 1..Len(calls) : calls[i].endpoint = endpoint /\ calls[i].member = m}
BatchCalls == {i \in 1..Len(calls) : calls[i].endpoint = "/relay-batch-transfer"}

IsPrefix(s, t) == Len(s) <= Len(t) /\ \A i \in 1..Len(s) : s[i] = t[i]

\* transfer() of member m has returned / has thrown
TransferReturned(m) ==
  IF op = "transfer" THEN m = 1 /\ outcome.kind = "returned"
  ELSE m <= Len(results) /\ results[m].success
TransferThrew(m) ==
  IF op = "transfer" THEN m = 1 /\ outcome.kind = "thrown"
  ELSE m <= Len(results) /\ ~results[m].success
\* the message of the error transfer() of member m threw
ThrownMessage(m) ==
  IF op = "transfer" THEN outcome.error.message ELSE results[m].error

\* batchTransfer got a failed answer to its atomic request / has settled
AtomicFailed ==
  /\ op = "batchTransfer"
  /\ Len(replies) >= 1
  /\ ResponseFailed(replies[1])
BatchDone == op = "batchTransfer" /\ pc = "done"

\* C1: a transfer() that returned emitted exactly initiated, signed, submitted,
\* confirmed for its request, each once, in that order, and nothing else.
C1_SuccessEventSequence ==
  \A m \in Members :
    TransferReturned(m) =>
      TypesOf(m) = <<"transfer_initiated", "transfer_signed",
                     "transfer_submitted", "transfer_confirmed">>

C1_Witness ==
  /\ op = "transfer"
  /\ pc = "done"
  /\ outcome.kind = "returned"
  /\ outcome.result.success
  /\ Len(events) = 4

\* C2: a transfer() that threw emitted a prefix of initiated, signed, submitted
\* followed by exactly one failed event, the last one, carrying the error and
\* the step it arose in.
C2_FailureEventSequence ==
  \A m \in Members :
    TransferThrew(m) =>
      LET ev == EventsOf(m)
          ty == TypesOf(m)
          n == Len(ty)
      IN /\ n >= 1
         /\ ty[n] = "transfer_failed"
         /\ IsPrefix(SubSeq(ty, 1, n - 1),
                     <<"transfer_initiated", "transfer_signed", "transfer_submitted">>)
         /\ ev[n].error = ThrownMessage(m)
         /\ ev[n].step \in {"quote", "prepare", "execute"}

\* C3: the (nonce, deadline) pair of a /relay-transfer request is the pair of
\* the /prepare-signature request the signed payload was built from.
C3_NonceDeadlinePinned ==
  \A i \in 1..Len(calls) :
    calls[i].endpoint = "/relay-transfer" =>
      \E j \in 1..(i - 1) :
        /\ calls[j].endpoint = "/prepare-signature"
        /\ calls[j].member = calls[i].member
        /\ calls[j].nonce = calls[i].nonce
        /\ calls[j].deadline = calls[i].deadline

\* C4: a settled transfer() either returned success=true with a non-empty
\* txHash or raised an error with a message.
C4_SuccessHasTxHash ==
  (op = "transfer" /\ pc = "done") =>
    \/ /\ outcome.kind = "returned"
       /\ outcome.result.success
       /\ outcome.result.txHash # ""
    \/ /\ outcome.kind = "thrown"
       /\ outcome.error.message # ""

\* C5: /relay-transfer is requested at most once per transfer() and
\* /relay-batch-transfer at most once per batchTransfer(), whatever the answer.
C5_NoSubmissionRetry ==
  /\ \A m \in Members : Cardinality(CallsTo("/relay-transfer", m)) <= 1
  /\ Cardinality(BatchCalls) <= 1

\* a submission that failed at the transport level has settled its call
C5_Witness ==
  /\ pc = "done"
  /\ \E m \in Members : Cardinality(CallsTo("/relay-transfer", m)) = 1
  /\ ~replies[Len(replies)].success
  /\ replies[Len(replies)].error = NetworkErrorMessage
  /\ calls[Len(calls)].endpoint = "/relay-transfer"

\* the signer was handed a payload of member m and produced sig for it
SignedBySigner(m, sig) ==
  \E k \in 1..Len(signerCalls) :
    signerCalls[k].member = m /\ SignatureOf(signerCalls[k]) = sig

\* C6: every signature submitted to the relayer, by /relay-transfer or inside a
\* /relay-batch-transfer request, was returned by the signer for that transfer.
C6_SubmittedSignatureFromSigner ==
  \A i \in 1..Len(calls) :
    /\ calls[i].endpoint = "/relay-transfer" =>
         SignedBySigner(calls[i].member, calls[i].signature)
    /\ calls[i].endpoint = "/relay-batch-transfer" =>
         \A m \in DOMAIN calls[i].transfers :
           SignedBySigner(m, calls[i].transfers[m].signature)

\* C7: every member of a /relay-batch-transfer request was quoted, had its
\* nonce fetched and was signed before the request, and carries those values.
C7_BatchMembersPopulated ==
  \A i \in BatchCalls :
    \A m \in DOMAIN calls[i].transfers :
      /\ \E j \in 1..(i - 1) :
           /\ calls[j].endpoint = "/quote" /\ calls[j].member = m
           /\ replies[j].hasData
           /\ replies[j].data = calls[i].transfers[m].relayerFee
      /\ \E j \in 1..(i - 1) :
           /\ calls[j].endpoint = "/nonce" /\ calls[j].member = m
           /\ replies[j].hasData
           /\ replies[j].data = calls[i].transfers[m].nonce
      /\ SignedBySigner(m, calls[i].transfers[m].signature)

\* the members whose transfer() was entered, in the order of their initiated events
Attempted ==
  LET started == SelectSeq(events, LAMBDA e : e.type = "transfer_initiated")
  IN [i \in 1..Len(started) |-> started[i].member]

\* C8: after a failed atomic request, batchTransfer has run transfer() once for
\* every member in list order, whatever the earlier members did, and has
\* collected one result per member: success for a confirmed member, otherwise
\* success=false, an empty txHash and the error that was caught.
C8_FallbackAttemptsEveryMember ==
  (AtomicFailed /\ BatchDone) =>
    /\ Len(results) = Len(transfers)
    /\ Attempted = [m \in Members |-> m]
    /\ \A m \in 1..Len(results) :
         LET ev == EventsOf(m)
         IN /\ results[m].success =
                 (\E i \in 1..Len(ev) : ev[i].type = "transfer_confirmed")
            /\ ~results[m].success =>
                 /\ results[m].txHash = ""
                 /\ results[m].error # ""
                 /\ ev[Len(ev)].type = "transfer_failed" =>
                      results[m].error = ev[Len(ev)].error

\* the relayer was unreachable for the atomic request, the first member failed
\* and the second one was still run and confirmed
C8_Witness ==
  /\ AtomicFailed
  /\ BatchDone
  /\ replies[1].error = NetworkErrorMessage
  /\ Len(results) = 2
  /\ ~results[1].success
  /\ results[2].success

BothPathsFailed ==
  /\ AtomicFailed
  /\ BatchDone
  /\ \A m \in 1..Len(results) : ~results[m].success

\* C10 as claimed: when the atomic request and every member transfer of the
\* fallback (of a non-empty list) fail, batchTransfer raises BATCH_TRANSFER_ERROR.
C10_Original_RaisesBatchTransferError ==
  (BothPathsFailed /\ Len(transfers) > 0) =>
    /\ outcome.kind = "thrown"
    /\ outcome.error.code = "BATCH_TRANSFER_ERROR"

\* C10 as amended: when the atomic request and every member transfer of the
\* fallback fail, batchTransfer raises nothing: it returns a failure-shaped
\* result (success=false, empty txHash) whose error is the message caught for
\* the first member, or 'No transfers completed' for an empty list.
C10_ReturnsFirstFailure ==
  BothPathsFailed =>
    /\ outcome.kind = "returned"
    /\ ~outcome.result.success
    /\ outcome.result.txHash = ""
    /\ outcome.result.error =
         IF Len(transfers) > 0 THEN results[1].error ELSE "No transfers completed"

\* both members of a two-member batch failed after the atomic request failed
C10_Witness ==
  /\ BothPathsFailed
  /\ Len(transfers) = 2
  /\ Len(results) = 2
  /\ outcome.kind = "returned"

\* ------------------------------------------------------------ event listeners
MaxListeners == 3
Listeners == {"la", "lb"}

\* what a listener does when it is called: nothing more, throw, or register or
\* unregister a listener of the same SDK
Behaviours ==
  {[do |-> "quiet"], [do |-> "throws"]}
    \cup {[do |-> "add", l |-> x] : x \in Listeners}
    \cup {[do |-> "remove", l |-> x] : x \in Listeners}

\* eventListeners.push(listener)
push(list, l) == Append(list, l)

\* eventListeners.indexOf(listener): 0 here where the code has -1
indexOf(list, l) ==
  IF \E i \in 1..Len(list) : list[i] = l
  THEN CHOOSE i \in 1..Len(list) : list[i] = l /\ \A j \in 1..(i - 1) : list[j] # l
  ELSE 0

\* eventListeners.splice(index, 1)
splice(list, index) == SubSeq(list, 1, index - 1) \o SubSeq(list, index + 1, Len(list))

\* mutant: every registration of the listener is removed
removeFrom_all(list, l) == SelectSeq(list, LAMBDA x : x # l)

\* removeEventListener's body on the list
removeFrom(list, l) ==
  IF indexOf(list, l) > 0 THEN splice(list, indexOf(list, l)) ELSE list

\* the list after listener(event) ran with behaviour b
listenerRuns(list, b) ==
  IF b.do = "add" THEN push(list, b.l)
  ELSE IF b.do = "remove" THEN removeFrom(list, b.l)
  ELSE list

Delivery(list, invoked, caught, how) ==
  [list |-> list, invoked |-> invoked, caught |-> caught, outcome |-> how]

\* mutant: the listener is called outside any try/catch
RECURSIVE forEach_noCatch(_, _, _, _, _, _)
forEach_noCatch(list, k, len, invoked, caught, beh) ==
  IF k > len THEN Delivery(list, invoked, caught, "returned")
  ELSE IF k > Len(list) THEN forEach_noCatch(list, k + 1, len, invoked, caught, beh)
  ELSE IF beh[list[k]].do = "throws"
       THEN Delivery(list, Append(invoked, list[k]), caught, "thrown")
       ELSE forEach_noCatch(listenerRuns(list, beh[list[k]]), k + 1, len,
                            Append(invoked, list[k]), caught, beh)

\* this.eventListeners.forEach(listener => { try { listener(event) } catch {...} })
\* from index k on.  Array.prototype.forEach reads the length once (len), then
\* visits each index below it that the array still has, reading the live array.
RECURSIVE forEach(_, _, _, _, _, _)
forEach(list, k, len, invoked, caught, beh) ==
  IF k > len THEN Delivery(list, invoked, caught, "returned")
  ELSE IF k > Len(list) THEN forEach(list, k + 1, len, invoked, caught, beh)
  ELSE forEach(listenerRuns(list, beh[list[k]]), k + 1, len,
               Append(invoked, list[k]),
               IF beh[list[k]].do = "throws" THEN Append(caught, list[k]) ELSE caught,
               beh)

BusInit ==
  /\ OrchIdle
  /\ RetryIdle
  /\ BusIdle
  /\ ConcIdle
  /\ ClientIdle
  /\ ValIdle
  /\ BuildIdle

addEventListener(l) ==
  /\ Len(eventListeners) < MaxListeners
  /\ eventListeners' = push(eventListeners, l)
  /\ UNCHANGED <<lastEmit, orchVars, retryVars, concVars, clientVars, valVars, buildVars>>

removeEventListener(l) ==
  /\ eventListeners' = removeFrom(eventListeners, l)
  /\ UNCHANGED <<lastEmit, orchVars, retryVars, concVars, clientVars, valVars, buildVars>>

\* emitEvent(event), the listeners behaving as beh says
EmitToListeners(beh) ==
  LET d == forEach(eventListeners, 1, Len(eventListeners), <<>>, <<>>, beh)
  IN /\ Len(d.list) <= MaxListeners
     /\ eventListeners' = d.list
     /\ lastEmit' = [kind |-> "emit",
                     snapshot |-> eventListeners,
                     invoked |-> d.invoked,
                     caught |-> d.caught,
                     quiet |-> \A i \in 1..Len(d.invoked) :
                                 beh[d.invoked[i]].do \in {"quiet", "throws"},
                     outcome |-> d.outcome]
     /\ UNCHANGED <<orchVars, retryVars, concVars, clientVars, valVars, buildVars>>

BusNext ==
  \/ \E l \in Listeners : addEventListener(l)
  \/ \E l \in Listeners : removeEventListener(l)
  \/ \E beh \in [Listeners -> Behaviours] : EmitToListeners(beh)

SpecBus == BusInit /\ [][BusNext]_vars

\* ------------------------------------------------- concurrent transfer() calls
\* Each call runs the steps of transfer() on 'avalanche'; the calls share the
\* SDK instance, which keeps no per-sender state, and the relayer's nonce.
ConcInit ==
  /\ OrchIdle
  /\ RetryIdle
  /\ BusIdle
  /\ ConcIdle
  /\ ClientIdle
  /\ ValIdle
  /\ BuildIdle

\* call p moves on to position pc after an answer of kind last
ProcMoves(p, pc2, last, ns) ==
  procs' = [procs EXCEPT ![p] = [pc |-> pc2, nonces |-> ns, last |-> last,
                                 outcome |-> procs[p].outcome]]
\* call p settles with outcome o
ProcSettles(p, last, o) ==
  procs' = [procs EXCEPT ![p] = [pc |-> "done", nonces |-> procs[p].nonces,
                                 last |-> last, outcome |-> o]]

\* mutant: transfer() waits until no other call is in flight
ConcCallTransfer_serialized(p) ==
  /\ procs[p].pc = "idle"
  /\ \A q \in Procs \ {p} : procs[q].pc \in {"idle", "done"}
  /\ ProcMoves(p, "quote", "none", <<>>)
  /\ UNCHANGED <<chainNonce, orchVars, retryVars, busVars, clientVars, valVars, buildVars>>

\* transfer() up to `await post('/quote')`
ConcCallTransfer(p) ==
  /\ procs[p].pc = "idle"
  /\ ProcMoves(p, "quote", "none", <<>>)
  /\ UNCHANGED <<chainNonce, orchVars, retryVars, busVars, clientVars, valVars, buildVars>>

ConcQuoteResponse(p, kind, fee) ==
  /\ procs[p].pc = "quote"
  /\ LET response == httpRequest(kind, fee)
         error == SmoothSendError(ErrorMessage(response, "Failed to get quote"),
                                  "QUOTE_ERROR", "avalanche")
     IN IF ResponseFailed(response)
        THEN ProcSettles(p, kind, Thrown(error))
        ELSE ProcMoves(p, "prepareNonce", kind, procs[p].nonces)
  /\ UNCHANGED <<chainNonce, orchVars, retryVars, busVars, clientVars, valVars, buildVars>>

\* either getNonce of the call: the relayer answers with the account's nonce
ConcNonceResponse(p, kind) ==
  /\ procs[p].pc \in {"prepareNonce", "executeNonce"}
  /\ LET response == httpRequest(kind, chainNonce)
         got == getNonce(response, "avalanche")
     IN IF got.kind = "thrown"
        THEN ProcSettles(p, kind, got)
        ELSE ProcMoves(p, IF procs[p].pc = "prepareNonce" THEN "prepare" ELSE "relay",
                       kind, Append(procs[p].nonces, got.result))
  /\ UNCHANGED <<chainNonce, orchVars, retryVars, busVars, clientVars, valVars, buildVars>>

ConcPrepareResponse(p, kind) ==
  /\ procs[p].pc = "prepare"
  /\ LET response == httpRequest(kind, procs[p].nonces)
         error == SmoothSendError(ErrorMessage(response, "Failed to prepare signature"),
                                  "SIGNATURE_PREP_ERROR", "avalanche")
     IN IF ResponseFailed(response)
        THEN ProcSettles(p, kind, Thrown(error))
        ELSE ProcMoves(p, "sign", kind, procs[p].nonces)
  /\ UNCHANGED <<chainNonce, orchVars, retryVars, busVars, clientVars, valVars, buildVars>>

ConcSignerReturns(p) ==
  /\ procs[p].pc = "sign"
  /\ ProcMoves(p, "executeNonce", "signed", procs[p].nonces)
  /\ UNCHANGED <<chainNonce, orchVars, retryVars, busVars, clientVars, valVars, buildVars>>

ConcSignerThrows(p) ==
  /\ procs[p].pc = "sign"
  /\ ProcSettles(p, "signer threw", Thrown(PlainError("user rejected the request")))
  /\ UNCHANGED <<chainNonce, orchVars, retryVars, busVars, clientVars, valVars, buildVars>>

\* executeTransfer after `await post('/relay-transfer')`.  The relayer accepts
\* a payload only when it was signed and sent for the account's current nonce,
\* and the nonce then advances.
ConcRelayResponse(p, kind, txHash) ==
  /\ procs[p].pc = "relay"
  /\ kind = "ok" => procs[p].nonces = <<chainNonce, chainNonce>>
  /\ LET response == httpRequest(kind, txHash)
         error == SmoothSendError(ErrorMessage(response, "Transfer execution failed"),
                                  "EXECUTION_ERROR", "avalanche")
     IN IF ResponseFailed(response)
        THEN /\ ProcSettles(p, kind, Thrown(error))
             /\ UNCHANGED chainNonce
        ELSE /\ ProcSettles(p, kind, Returned(SuccessResult(response.data)))
             /\ chainNonce' = chainNonce + 1
  /\ UNCHANGED <<orchVars, retryVars, busVars, clientVars, valVars, buildVars>>

\* the next step of call p, whichever it is
ProcStep(p) ==
  \/ ConcCallTransfer(p)
  \/ \E kind \in TransportKinds, fee \in QuoteFees : ConcQuoteResponse(p, kind, fee)
  \/ \E kind \in TransportKinds : ConcNonceResponse(p, kind)
  \/ \E kind \in TransportKinds : ConcPrepareResponse(p, kind)
  \/ ConcSignerReturns(p)
  \/ ConcSignerThrows(p)
  \/ \E kind \in TransportKinds : ConcRelayResponse(p, kind, "0xabc")

ConcNext == \E p \in Procs : ProcStep(p)

\* every request is answered and the signer settles
SpecConc ==
  /\ ConcInit
  /\ [][ConcNext]_vars
  /\ \A p \in Procs : WF_vars(ProcStep(p))

\* ---------------------------------------------------------- relay-client methods
MaxClientCalls == 2

\* the public methods that send one request: the endpoint, the code and default
\* message of the error thrown on a failed answer, whether the error carries
\* the chain argument, and the step named in the transfer_failed event
ClientOperations ==
  { [name |-> "getQuote", endpoint |-> "/quote", code |-> "QUOTE_ERROR",
     fallback |-> "Failed to get quote", withChain |-> TRUE, step |-> "quote"],
    [name |-> "getNonce", endpoint |-> "/nonce", code |-> "NONCE_ERROR",
     fallback |-> "Failed to get nonce", withChain |-> TRUE, step |-> ""],
    [name |-> "prepareSignature", endpoint |-> "/prepare-signature",
     code |-> "SIGNATURE_PREP_ERROR", fallback |-> "Failed to prepare signature",
     withChain |-> TRUE, step |-> "prepare"],
    [name |-> "executeTransfer", endpoint |-> "/relay-transfer",
     code |-> "EXECUTION_ERROR", fallback |-> "Transfer execution failed",
     withChain |-> TRUE, step |-> "execute"],
    [name |-> "getTransferStatus", endpoint |-> "/transfer-status",
     code |-> "STATUS_ERROR", fallback |-> "Failed to get transfer status",
     withChain |-> TRUE, step |-> ""],
    [name |-> "getSupportedChains", endpoint |-> "/chains", code |-> "CHAINS_ERROR",
     fallback |-> "Failed to get supported chains", withChain |-> FALSE, step |-> ""],
    [name |-> "getChainTokens", endpoint |-> "/chains/:chainName/tokens",
     code |-> "CHAIN_TOKENS_ERROR", fallback |-> "Failed to get chain tokens",
     withChain |-> TRUE, step |-> ""],
    [name |-> "getDomainSeparator", endpoint |-> "/domain-separator/:chainName",
     code |-> "DOMAIN_SEPARATOR_ERROR", fallback |-> "Failed to get domain separator",
     withChain |-> TRUE, step |-> ""],
    [name |-> "estimateGas", endpoint |-> "/estimate-gas", code |-> "GAS_ESTIMATE_ERROR",
     fallback |-> "Failed to estimate gas", withChain |-> TRUE, step |-> ""],
    [name |-> "getHealth", endpoint |-> "/health", code |-> "HEALTH_CHECK_ERROR",
     fallback |-> "Health check failed", withChain |-> FALSE, step |-> ""] }

ClientOperation(name) == CHOOSE o \in ClientOperations : o.name = name

ClientInit ==
  /\ OrchIdle
  /\ RetryIdle
  /\ BusIdle
  /\ ConcIdle
  /\ ClientIdle
  /\ ValIdle
  /\ BuildIdle

\* the method up to its first await: getQuote and executeTransfer emit an
\* event first, prepareSignature starts with getNonce
ClientCall(o, chain) ==
  /\ clientPc \in {"idle", "done"}
  /\ clientCount < MaxClientCalls
  /\ clientCount' = clientCount + 1
  /\ clientCall' = [operation |-> o.name, chain |-> IF o.withChain THEN chain ELSE "none"]
  /\ clientEvents' =
       IF o.name = "getQuote" THEN emitEvent(<<>>, InitiatedEvent(1))
       ELSE IF o.name = "executeTransfer"
            THEN emitEvent(<<>>, SubmittedEvent(1, PlaceholderSignature))
            ELSE <<>>
  /\ clientRequested' = IF o.name = "prepareSignature" THEN "/nonce" ELSE o.endpoint
  /\ clientPc' = IF o.name = "prepareSignature" THEN "nonce" ELSE "waiting"
  /\ clientReply' = NoValue
  /\ clientOutcome' = NoValue
  /\ UNCHANGED <<orchVars, retryVars, busVars, concVars, valVars, buildVars>>

\* prepareSignature after getNonce
ClientNonceResponse(kind) ==
  /\ clientPc = "nonce"
  /\ LET response == httpRequest(kind, 0)
         got == getNonce(response, clientCall.chain)
     IN /\ clientReply' = response
        /\ IF got.kind = "thrown"
           THEN /\ clientOutcome' = got
                /\ clientEvents' =
                     emitEvent(clientEvents, FailedEvent(1, got.error.message, "prepare"))
                /\ clientPc' = "done"
                /\ UNCHANGED clientRequested
           ELSE /\ clientRequested' = "/prepare-signature"
                /\ clientPc' = "waiting"
                /\ UNCHANGED <<clientOutcome, clientEvents>>
  /\ UNCHANGED <<clientCall, clientCount>>
  /\ UNCHANGED <<orchVars, retryVars, busVars, concVars, valVars, buildVars>>

\* mutant: a transport failure is rethrown as the transport's own error
ClientResponse_rawTransport(kind) ==
  /\ clientPc = "waiting"
  /\ LET o == ClientOperation(clientCall.operation)
         response == httpRequest(kind, "data")
         error == IF response.error = NetworkErrorMessage
                  THEN PlainError(NetworkErrorMessage)
                  ELSE SmoothSendError(ErrorMessage(response, o.fallback), o.code,
                                       clientCall.chain)
     IN /\ clientReply' = response
        /\ IF ResponseFailed(response)
           THEN /\ clientOutcome' = Thrown(error)
                /\ clientEvents' =
                     IF o.step = "" THEN clientEvents
                     ELSE emitEvent(clientEvents, FailedEvent(1, error.message, o.step))
           ELSE /\ clientOutcome' = Returned(response.data)
                /\ clientEvents' =
                     IF o.name = "executeTransfer"
                     THEN emitEvent(clientEvents, ConfirmedEvent(1, response.data))
                     ELSE clientEvents
  /\ clientPc' = "done"
  /\ UNCHANGED <<clientCall, clientRequested, clientCount>>
  /\ UNCHANGED <<orchVars, retryVars, busVars, concVars, valVars, buildVars>>

\* the method after `await this.httpClient.get / post`: the data, or the
\* SmoothSendError with the method's code
ClientResponse(kind) ==
  /\ clientPc = "waiting"
  /\ LET o == ClientOperation(clientCall.operation)
         response == httpRequest(kind, "data")
         error == SmoothSendError(ErrorMessage(response, o.fallback), o.code,
                                  clientCall.chain)
     IN /\ clientReply' = response
        /\ IF ResponseFailed(response)
           THEN /\ clientOutcome' = Thrown(error)
                /\ clientEvents' =
                     IF o.step = "" THEN clientEvents
                     ELSE emitEvent(clientEvents, FailedEvent(1, error.message, o.step))
           ELSE /\ clientOutcome' = Returned(response.data)
                /\ clientEvents' =
                     IF o.name = "executeTransfer"
                     THEN emitEvent(clientEvents, ConfirmedEvent(1, response.data))
                     ELSE clientEvents
  /\ clientPc' = "done"
  /\ UNCHANGED <<clientCall, clientRequested, clientCount>>
  /\ UNCHANGED <<orchVars, retryVars, busVars, concVars, valVars, buildVars>>

ClientNext ==
  \/ \E o \in ClientOperations, chain \in Chains : ClientCall(o, chain)
  \/ \E kind \in TransportKinds : ClientNonceResponse(kind)
  \/ \E kind \in TransportKinds : ClientResponse(kind)

SpecClient == ClientInit /\ [][ClientNext]_vars

\* ------------------------------------------------- validateAmount, validateAddress
MaxAmountLen == 3
AmountAlphabet == {"0", "1", "5", ".", "-"}
Tokens == {"USDC", "AVAX"}

\* '1000000'
MillionAmount == <<"1", "0", "0", "0", "0", "0", "0">>
\* every string over the alphabet up to the length bound, and '1000000'
AmountInputs ==
  UNION {[1..n -> AmountAlphabet] : n \in 0..MaxAmountLen} \cup {MillionAmount}

\* '0x742d35Cc6634C0532925a3b8D2d2d2d2d2d2d2d'
ExampleAddress ==
  <<"0", "x", "7", "4", "2", "d", "3", "5", "C", "c", "6", "6", "3", "4", "C", "0", "5",
    "3", "2", "9", "2", "5", "a", "3", "b", "8", "D", "2", "d", "2", "d", "2", "d", "2",
    "d", "2", "d", "2", "d", "2", "d">>
\* '0x742d35cc6634c0532925a3b8d2d2d2d2d2d2d2d2'
ReadmeAddress ==
  <<"0", "x", "7", "4", "2", "d", "3", "5", "c", "c", "6", "6", "3", "4", "c", "0", "5",
    "3", "2", "9", "2", "5", "a", "3", "b", "8", "d", "2", "d", "2", "d", "2", "d", "2",
    "d", "2", "d", "2", "d", "2", "d", "2">>
\* 'not-an-address'
NotAnAddress ==
  <<"n", "o", "t", "-", "a", "n", "-", "a", "d", "d", "r", "e", "s", "s">>
AddressInputs ==
  { ExampleAddress, ReadmeAddress, NotAnAddress, <<>>,
    \* one digit too many, a letter outside a-f, an upper-case prefix
    Append(ReadmeAddress, "2"),
    [ReadmeAddress EXCEPT ![10] = "g"],
    [ReadmeAddress EXCEPT ![2] = "X"] }

ValCalls ==
  [fn : {"validateAmount"}, chain : Chains, input : AmountInputs, token : Tokens]
    \cup [fn : {"validateAddress"}, chain : Chains, input : AddressInputs]

\* a call with its arguments is about to be made
ValInit ==
  /\ OrchIdle
  /\ RetryIdle
  /\ BusIdle
  /\ ConcIdle
  /\ ClientIdle
  /\ BuildIdle
  /\ valCall \in ValCalls
  /\ valResult = NoValue

ValidateAmount ==
  /\ valCall.fn = "validateAmount"
  /\ valResult = NoValue
  /\ valResult' = Returned(validateAmount(valCall.chain, valCall.input, valCall.token))
  /\ UNCHANGED <<valCall, orchVars, retryVars, busVars, concVars, clientVars, buildVars>>

ValidateAddress ==
  /\ valCall.fn = "validateAddress"
  /\ valResult = NoValue
  /\ valResult' = Returned(validateAddress(valCall.chain, valCall.input))
  /\ UNCHANGED <<valCall, orchVars, retryVars, busVars, concVars, clientVars, buildVars>>

ValNext == ValidateAmount \/ ValidateAddress

SpecValidate == ValInit /\ [][ValNext]_vars

\* ------------------------------------------------- prepareSignature's payload
MaxBuilds == 2
MaxBuildClock == 1500
\* the clock is read at half-second steps
ClockStep == 500
BuildFees == {2500, 3000}
BuildNonces == {0, 7}

\* mutant: the payload carries the time of the call
BuildPayload_clockLeak(chain, fee, nonce, t) ==
  LET request == PrepareRequest(1, chain, fee, nonce, ComputeDeadline(t))
  IN [request |-> request,
      payload |-> [typedData |-> TypedData(request), timestamp |-> t]]

\* prepareSignature for a request on chain with the quote's fee, getNonce having
\* returned nonce and Date.now() reading t: the request posted and the
\* SignatureData returned
BuildPayload(chain, fee, nonce, t) ==
  LET request == PrepareRequest(1, chain, fee, nonce, ComputeDeadline(t))
  IN [request |-> request,
      payload |-> [typedData |-> TypedData(request)]]

BuildInit ==
  /\ OrchIdle
  /\ RetryIdle
  /\ BusIdle
  /\ ConcIdle
  /\ ClientIdle
  /\ ValIdle
  /\ BuildIdle

BuildTick ==
  /\ buildClock + ClockStep <= MaxBuildClock
  /\ buildClock' = buildClock + ClockStep
  /\ UNCHANGED <<buildLog, orchVars, retryVars, busVars, concVars, clientVars, valVars>>

Build(chain, fee, nonce) ==
  /\ Len(buildLog) < MaxBuilds
  /\ LET built == BuildPayload(chain, fee, nonce, buildClock)
     IN buildLog' = Append(buildLog,
                           [chain |-> chain, fee |-> fee, nonce |-> nonce,
                            clock |-> buildClock, deadline |-> built.request.deadline,
                            request |-> built.request, payload |-> built.payload])
  /\ UNCHANGED <<buildClock, orchVars, retryVars, busVars, concVars, clientVars, valVars>>

BuildNext ==
  \/ BuildTick
  \/ \E chain \in Chains, fee \in BuildFees, nonce \in BuildNonces : Build(chain, fee, nonce)

SpecBuild == BuildInit /\ [][BuildNext]_vars

\* ------------------------------------------------------- retry properties
Invocations == SelectSeq(retryLog, LAMBDA e : e.what = "invoke")
Settlements == SelectSeq(retryLog, LAMBDA e : e.what = "settled")
DelaysWaited ==
  LET ds == SelectSeq(retryLog, LAMBDA e : e.what = "delay")
  IN [k \in 1..Len(ds) |-> ds[k].ms]
RetryDone == retryPc = "done"

\* C11: when retry returns a success, the operation was invoked once more than
\* it failed, the success is the last invocation and is the value returned, and
\* the waits between the invocations were delay, 2*delay, ...
C11_RetryStopsAtFirstSuccess ==
  (RetryDone /\ retryResult.result.success) =>
    LET n == Len(Settlements) - 1
    IN /\ Len(Invocations) = n + 1
       /\ n < maxRetries + 1
       /\ \A k \in 1..n : Settlements[k].how # "success"
       /\ Settlements[n + 1].how = "success"
       /\ retryLog[Len(retryLog)] = Settlements[n + 1]
       /\ retryResult.result = OperationResult(n)
       /\ DelaysWaited = [k \in 1..n |-> delay * (2 ^ (k - 1))]

\* two failures, then a success, with the default maxRetries and delay
C11_Witness ==
  /\ RetryDone
  /\ retryResult.result.success
  /\ maxRetries = DefaultMaxRetries
  /\ delay = DefaultDelay
  /\ Len(Invocations) = 3
  /\ Settlements[1].how = "throws"
  /\ Settlements[2].how = "failure"
  /\ DelaysWaited = <<1000, 2000>>

C13_BackoffSchedule ==
  /\ \A k \in 1..Len(DelaysWaited) : DelaysWaited[k] = delay * (2 ^ (k - 1))
  /\ \A i \in 1..Len(retryLog) :
       /\ (retryLog[i].what = "invoke" /\ i > 1) =>
            /\ retryLog[i - 1].what = "delay"
            /\ retryLog[i].attempt = retryLog[i - 2].attempt + 1
       /\ retryLog[i].what = "delay" =>
            /\ retryLog[i - 1].what = "settled"
            /\ retryLog[i - 1].how # "success"
       /\ retryLog[i].what = "settled" =>
            /\ retryLog[i - 1].what = "invoke"
            /\ retryLog[i - 1].attempt = retryLog[i].attempt
  /\ RetryDone =>
       /\ retryLog[Len(retryLog)].what = "settled"
       /\ Len(DelaysWaited) = Len(Invocations) - 1

\* an exhausted retry with the default arguments waited 1 s, 2 s and 4 s
C13_Witness ==
  /\ RetryDone
  /\ ~retryResult.result.success
  /\ delay = DefaultDelay
  /\ DelaysWaited = <<1000, 2000, 4000>>

\* ------------------------------------------- orchestration properties, continued
\* C14: with retries configured, an idempotent request (/quote, /nonce) that
\* fails at the transport level is sent again.
C14_NetworkErrorRetried ==
  \A i \in 1..Len(replies) :
    ( /\ ConfigRetries > 0
      /\ calls[i].endpoint \in {"/quote", "/nonce"}
      /\ replies[i].error = NetworkErrorMessage
      /\ (i = 1 \/ calls[i - 1] # calls[i]) )
    => (Len(calls) > i /\ calls[i + 1] = calls[i])

\* C18: while the signer call is pending the orchestration does nothing: it
\* emits no event, sends no request and settles nothing until the signer
\* returns or raises.
C18_NoSignerTimeout ==
  [][pc = "sign" =>
       \/ SignerReturns
       \/ SignerThrows
       \/ UNCHANGED <<pc, events, calls, signerCalls, results, outcome>>]_vars

\* the signer is still pending after the clock moved past the second in which
\* the payload was prepared
C18_Witness ==
  /\ pc = "sign"
  /\ now = MsPerSecond
  /\ calls[Len(calls)].endpoint = "/prepare-signature"
  /\ calls[Len(calls)].deadline = ComputeDeadline(0)

\* how a direct transfer() that threw actually failed
NeverReachedNetwork ==
  /\ Len(calls) > 0
  /\ Len(replies) = Len(calls)
  /\ replies[Len(replies)].error = NetworkErrorMessage
RelayerRejectedSigned ==
  /\ Len(calls) > 0
  /\ Len(replies) = Len(calls)
  /\ calls[Len(calls)].endpoint = "/relay-transfer"
  /\ replies[Len(replies)].error # NetworkErrorMessage
SignerFailed ==
  /\ Len(calls) > 0
  /\ Len(replies) = Len(calls)
  /\ calls[Len(calls)].endpoint = "/prepare-signature"
  /\ ~ResponseFailed(replies[Len(replies)])
  /\ transfers[1] = "avalanche"

\* C19: an error thrown by transfer() carries the chain, and its kind tells the
\* three classes apart: EXECUTION_ERROR (step execute) means the relayer
\* rejected the signed payload, never that the network was not reached, and a
\* signer failure has a kind of its own.
C19_FailureClassesDistinct ==
  (op = "transfer" /\ pc = "done" /\ outcome.kind = "thrown") =>
    /\ outcome.error.chain = transfers[1]
    /\ outcome.error.code # "none"
    /\ NeverReachedNetwork => outcome.error.code # "EXECUTION_ERROR"
    /\ SignerFailed => outcome.error.code \notin {"EXECUTION_ERROR", "UNSUPPORTED_CHAIN"}
    /\ RelayerRejectedSigned => outcome.error.code = "EXECUTION_ERROR"

\* C20: a transfer() whose amount is not a positive-integer decimal string
\* sends no request, does not invoke the signer and raises INVALID_INTENT.
C20_InvalidIntentRejected ==
  (op = "transfer" /\ ~validateAmount(transfers[1], amount, "USDC")) =>
    /\ calls = <<>>
    /\ signerCalls = <<>>
    /\ pc = "done"
    /\ outcome.kind = "thrown"
    /\ outcome.error.code = "INVALID_INTENT"

C16_FanOutOnSnapshot ==
  lastEmit.kind = "emit" =>
    /\ lastEmit.invoked = lastEmit.snapshot
    /\ lastEmit.outcome = "returned"

\* ------------------------------------------------------------ concurrency properties
\* a call that failed before its /relay-transfer answer failed on an answer to
\* its own request or on its own signer
OwnFailure(p) == procs[p].last \in {"nodata", "rejected", "unreachable", "signer threw"}

\* C17: two concurrent transfer() calls are not serialized: a call that has
\* not settled can always take its next step whatever the other call is doing,
\* a call fails before submission only on its own request or signer, and each
\* call reaches a terminal state.
C17_ConcurrentTransfersIndependent ==
  /\ [](\A p \in Procs : procs[p].pc # "done" => ENABLED ProcStep(p))
  /\ [](\A p \in Procs :
          (procs[p].pc = "done" /\ procs[p].outcome.kind = "thrown") => OwnFailure(p))
  /\ \A p \in Procs : <>(procs[p].pc = "done")

\* both calls were given the same nonce for signing and for sending; one was
\* accepted and the other was rejected by the relayer at /relay-transfer
C17_Witness ==
  \E p \in Procs, q \in Procs :
    /\ p # q
    /\ procs[p].nonces = <<0, 0>>
    /\ procs[q].nonces = <<0, 0>>
    /\ procs[p].outcome.kind = "returned"
    /\ procs[q].outcome.kind = "thrown"
    /\ procs[q].outcome.error.code = "EXECUTION_ERROR"
    /\ procs[q].last = "rejected"

\* ------------------------------------------------------- relay-client properties
\* the method whose request goes to the endpoint
OperationOf(endpoint) == CHOOSE o \in ClientOperations : o.endpoint = endpoint

\* C21: a relay-client method whose request was answered with success=false,
\* with an HTTP error or not at all throws the SDK's error carrying the code of
\* the operation that was requested and the chain; no other error leaves it.
C21_FailuresTagged ==
  (clientPc = "done" /\ ResponseFailed(clientReply)) =>
    /\ clientOutcome.kind = "thrown"
    /\ clientOutcome.error.code = OperationOf(clientRequested).code
    /\ clientOutcome.error.chain = clientCall.chain

\* the gateway was unreachable for executeTransfer's request, which threw
\* EXECUTION_ERROR
C21_Witness ==
  /\ clientPc = "done"
  /\ clientReply.error = NetworkErrorMessage
  /\ clientCall.operation = "executeTransfer"
  /\ clientOutcome.kind = "thrown"
  /\ clientOutcome.error.code = "EXECUTION_ERROR"

\* ------------------------------------------------------- validation properties
\* a non-empty string of decimal digits with a digit other than 0
IsPositiveDecimal(a) ==
  /\ a # <<>>
  /\ \A i \in DOMAIN a : a[i] \in {"0", "1", "2", "3", "4", "5", "6", "7", "8", "9"}
  /\ \E i \in DOMAIN a : a[i] # "0"

\* C22: validateAmount returns true exactly for non-empty strings of decimal
\* digits whose value is positive, whatever the chain and the token:
\* '1000000' is accepted, '0', '000', '', '1.5' and '-5' are rejected.
C22_ValidateAmount ==
  (valCall.fn = "validateAmount" /\ valResult.kind = "returned") =>
    /\ valResult.result = IsPositiveDecimal(valCall.input)
    /\ valCall.input = MillionAmount => valResult.result
    /\ valCall.input \in {<<"0">>, <<"0", "0", "0">>, <<>>, <<"1", ".", "5">>, <<"-", "5">>}
         => ~valResult.result

\* '1000000' was accepted on a chain other than 'avalanche'
C22_Witness ==
  /\ valCall.fn = "validateAmount"
  /\ valCall.input = MillionAmount
  /\ valCall.chain = "other"
  /\ valResult.kind = "returned"
  /\ valResult.result

\* '0x' followed by exactly 40 hexadecimal digits
IsEvmAddress(a) ==
  /\ Len(a) >= 2
  /\ SubSeq(a, 1, 2) = <<"0", "x">>
  /\ Len(SubSeq(a, 3, Len(a))) = 40
  /\ \A i \in 3..Len(a) : a[i] \in HexDigits

\* C23 as stated: on 'avalanche', validateAddress returns true for
\* '0x742d35Cc6634C0532925a3b8D2d2d2d2d2d2d2d' and false for 'not-an-address'.
C23_Original_ExampleAccepted ==
  (valCall.fn = "validateAddress" /\ valCall.chain = "avalanche"
     /\ valResult.kind = "returned") =>
    /\ valCall.input = ExampleAddress => valResult.result
    /\ valCall.input = NotAnAddress => ~valResult.result

\* C23 (amended): on 'avalanche', validateAddress returns true exactly for
\* '0x' followed by exactly 40 hexadecimal digits, and false on another chain;
\* 'not-an-address' and the 39-digit '0x742d35Cc6634C0532925a3b8D2d2d2d2d2d2d2d'
\* are rejected.
C23_ValidateAddress ==
  (valCall.fn = "validateAddress" /\ valResult.kind = "returned") =>
    /\ valResult.result = (valCall.chain = "avalanche" /\ IsEvmAddress(valCall.input))
    /\ valCall.input \in {ExampleAddress, NotAnAddress} => ~valResult.result

\* the 40-digit address was accepted
C23_Witness ==
  /\ valCall.fn = "validateAddress"
  /\ valCall.chain = "avalanche"
  /\ valCall.input = ReadmeAddress
  /\ valResult.kind = "returned"
  /\ valResult.result

EventIndexes(m, type) ==
  {k \in 1..Len(events) : events[k].member = m /\ events[k].type = type}
\* the events that end executeTransfer of member m
ExecuteEndIndexes(m) ==
  EventIndexes(m, "transfer_confirmed")
    \cup {k \in EventIndexes(m, "transfer_failed") : events[k].step = "execute"}

\* C25: when a /relay-transfer request of a member has been issued its
\* transfer_submitted event is already in the log; it precedes the confirmed or
\* failed event of that submission, and it is there when the relay call failed.
C25_SubmittedBeforeRelay ==
  \A i \in 1..Len(calls) :
    calls[i].endpoint = "/relay-transfer" =>
      LET m == calls[i].member
      IN /\ EventIndexes(m, "transfer_submitted") # {}
         /\ \A k \in EventIndexes(m, "transfer_submitted"), e \in ExecuteEndIndexes(m) : k < e
         /\ Len(replies) < i => ExecuteEndIndexes(m) = {}
         /\ Len(replies) >= i => ExecuteEndIndexes(m) # {}

\* the relay call failed, and submitted was emitted before the failed event
C25_Witness ==
  /\ op = "transfer"
  /\ pc = "done"
  /\ calls[Len(calls)].endpoint = "/relay-transfer"
  /\ ResponseFailed(replies[Len(replies)])
  /\ EventIndexes(1, "transfer_submitted") # {}
  /\ \E e \in ExecuteEndIndexes(1) : events[e].type = "transfer_failed"

\* the positions of all requests of member m, and of its signer invocations
RequestsOf(m) ==
  CallsTo("/quote", m) \cup CallsTo("/nonce", m)
    \cup CallsTo("/prepare-signature", m) \cup CallsTo("/relay-transfer", m)
SignerCallsOf(m) == {k \in 1..Len(signerCalls) : signerCalls[k].member = m}
\* request i was answered, and the answer was a success with data / a failure
Succeeded(i) == i <= Len(replies) /\ ~ResponseFailed(replies[i])
Failed(i) == i <= Len(replies) /\ ResponseFailed(replies[i])

\* C26: in one transfer() the first request is the quote; the signer is invoked
\* at most once and only after the quote and the signature payload were both
\* obtained; /relay-transfer is requested only after the signer returned.  A
\* failed quote or preparation means no signer call and no relay request; a
\* signer that has not returned a signature means no relay request.
C26_ProtocolOrder ==
  \A m \in 1..Len(transfers) :
    /\ RequestsOf(m) # {} =>
         \E i \in CallsTo("/quote", m) : \A j \in RequestsOf(m) : i <= j
    /\ Cardinality(SignerCallsOf(m)) <= 1
    /\ SignerCallsOf(m) # {} =>
         /\ \E i \in CallsTo("/quote", m) : Succeeded(i)
         /\ \E i \in CallsTo("/prepare-signature", m) : Succeeded(i)
    /\ CallsTo("/relay-transfer", m) # {} =>
         /\ SignerCallsOf(m) # {}
         /\ EventIndexes(m, "transfer_signed") # {}
         /\ \A i \in CallsTo("/relay-transfer", m) :
              SignedBySigner(m, calls[i].signature)
    /\ (\E i \in CallsTo("/quote", m) \cup CallsTo("/prepare-signature", m) : Failed(i)) =>
         /\ SignerCallsOf(m) = {}
         /\ CallsTo("/relay-transfer", m) = {}
    /\ (\A i \in CallsTo("/prepare-signature", m) : ~Succeeded(i)) =>
         /\ SignerCallsOf(m) = {}
         /\ CallsTo("/relay-transfer", m) = {}

\* the signer was invoked and raised: transfer() threw and nothing was relayed
C26_Witness ==
  /\ op = "transfer"
  /\ pc = "done"
  /\ SignerCallsOf(1) # {}
  /\ outcome.kind = "thrown"
  /\ outcome.error.code = "none"
  /\ CallsTo("/relay-transfer", 1) = {}

\* C27: when the relayer answered the atomic batch request with success (it
\* executed the batch), with or without data in the answer, no member transfer
\* is submitted individually afterwards.
C27_NoResubmissionOfExecutedBatch ==
  (op = "batchTransfer" /\ Len(replies) >= 1 /\ replies[1].success) =>
    \A i \in 1..Len(calls) : calls[i].endpoint # "/relay-transfer"

\* request i was answered with success=true and no data
NoData(i) == i <= Len(replies) /\ replies[i].success /\ ~replies[i].hasData

\* C28: an answer with success=true and no data is handled as a failure:
\* getQuote, getNonce and prepareSignature throw and transfer() goes no
\* further; executeTransfer emits transfer_failed (step execute), emits no
\* transfer_confirmed and throws EXECUTION_ERROR; batchTransfer enters the
\* sequential fallback.
C28_SuccessWithoutDataIsFailure ==
  \A i \in 1..Len(calls) :
    NoData(i) =>
      IF calls[i].endpoint = "/relay-batch-transfer"
      THEN /\ Len(transfers) > 0 => CallsTo("/quote", 1) # {}
           /\ Len(transfers) = 0 => outcome = FallbackReturn(<<>>)
      ELSE LET m == calls[i].member
           IN /\ TransferThrew(m)
              /\ \A j \in RequestsOf(m) : j <= i
              /\ EventIndexes(m, "transfer_confirmed") = {}
              /\ calls[i].endpoint = "/relay-transfer" =>
                   /\ \E k \in ExecuteEndIndexes(m) :
                        events[k].error = "Transfer execution failed"
                   /\ ThrownMessage(m) = "Transfer execution failed"
                   /\ op = "transfer" => outcome.error.code = "EXECUTION_ERROR"
              /\ calls[i].endpoint = "/quote" =>
                   \E k \in EventIndexes(m, "transfer_failed") : events[k].step = "quote"

\* /relay-transfer answered success without data: failed event, EXECUTION_ERROR
C28_Witness ==
  /\ op = "transfer"
  /\ pc = "done"
  /\ calls[Len(calls)].endpoint = "/relay-transfer"
  /\ NoData(Len(calls))
  /\ outcome.kind = "thrown"
  /\ outcome.error.code = "EXECUTION_ERROR"

\* the member each request belongs to (0 for the atomic batch request)
MemberOfCall(i) ==
  IF calls[i].endpoint = "/relay-batch-transfer" THEN 0 ELSE calls[i].member
\* the atomic batch request was answered with success and data
AtomicSucceeded ==
  /\ op = "batchTransfer"
  /\ Len(replies) >= 1
  /\ ~ResponseFailed(replies[1])

\* in every log the members appear in order, the signer at most once per
\* member, and nothing of a member later than the running one has happened
FallbackInOrder ==
  op = "batchTransfer" =>
    /\ \A k \in 1..Len(events), l \in 1..Len(events) :
         k < l => events[k].member <= events[l].member
    /\ \A k \in 1..Len(calls), l \in 1..Len(calls) :
         k < l => MemberOfCall(k) <= MemberOfCall(l)
    /\ \A k \in 1..Len(signerCalls), l \in 1..Len(signerCalls) :
         k < l => signerCalls[k].member < signerCalls[l].member
    /\ \A k \in 1..Len(events) : events[k].member <= cur
    /\ \A k \in 1..Len(calls) : MemberOfCall(k) <= cur
    /\ \A k \in 1..Len(signerCalls) : signerCalls[k].member <= cur
\* a step never goes back to an earlier member, and whatever it adds to a log
\* belongs to the running member or to the one it moves on to
FallbackStepInOrder ==
  op = "batchTransfer" =>
    /\ cur' >= cur
    /\ \A k \in (Len(events) + 1)..Len(events') : events'[k].member >= cur
    /\ \A k \in (Len(calls) + 1)..Len(calls') : calls'[k].member >= cur
    /\ \A k \in (Len(signerCalls) + 1)..Len(signerCalls') : signerCalls'[k].member >= cur

Registrations(list, l) == Cardinality({k \in 1..Len(list) : list[k] = l})

\* the step removes the earliest registration of l and shifts the later
\* entries down by one, or l is not registered and the list stays as it is
RemovesEarliest(l) ==
  IF Registrations(eventListeners, l) = 0
  THEN eventListeners' = eventListeners
  ELSE \E i \in 1..Len(eventListeners) :
         /\ eventListeners[i] = l
         /\ \A j \in 1..(i - 1) : eventListeners[j] # l
         /\ Len(eventListeners') = Len(eventListeners) - 1
         /\ \A k \in 1..Len(eventListeners') :
              eventListeners'[k] = IF k < i THEN eventListeners[k] ELSE eventListeners[k + 1]

====
